---- MODULE Spec2Model ----
(***************************************************************************)
(* Model of the crop recommendation screen of the AgroSmart application:  *)
(* the soil-aware CropRecommendation component (ChatBot.tsx 1080-1560),   *)
(* the simple one (CropRecommendation.tsx), the ChatBot component         *)
(* (ChatBot.tsx 1-341), the AuthScreen handlers and the App screen router *)
(* that mounts and unmounts them.                                         *)
(*                                                                        *)
(* A JavaScript string is a sequence of one-character strings, so that    *)
(* parseFloat, parseInt and toString are computed and not assumed.  A     *)
(* JavaScript number read by parseFloat is kept in tenths (one fractional *)
(* digit); the temperature strings of the model have at most one          *)
(* fractional digit.                                                      *)
(***************************************************************************)
EXTENDS Integers, Sequences, FiniteSets, TLC

VARIABLES variant, currentScreen, user,
          temperature, soilType, npkValues, loading, recommendations,
          timers, toasts, lastOp, lastFired, firstEval,
          messages, inputText, isTyping, replyTimers

vars == <<variant, currentScreen, user, temperature, soilType, npkValues,
          loading, recommendations, timers, toasts, lastOp, lastFired, firstEval,
          messages, inputText, isTyping, replyTimers>>

\* the state of the ChatBot component and its pending reply timeouts
chatVars == <<messages, inputText, isTyping, replyTimers>>

\* ------------------------------------------------------------------ bounds
\* pending setTimeout callbacks of the recommendation screen kept at once
MaxTimers == 2
\* the whole-number temperatures typed in the engine specification
MaxTemp == 42
TempBelow == 2

\* ------------------------------------------------------- JavaScript values
Null == [null |-> TRUE]

DigitChars == <<"0", "1", "2", "3", "4", "5", "6", "7", "8", "9">>

IsDigit(c) == \E i \in 1..10 : DigitChars[i] = c

DigitVal(c) == (CHOOSE i \in 1..10 : DigitChars[i] = c) - 1

\* Number.prototype.toString of a non-negative integer
RECURSIVE NatToString(_)
NatToString(n) ==
    IF n < 10 THEN <<DigitChars[n + 1]>>
    ELSE NatToString(n \div 10) \o <<DigitChars[(n % 10) + 1]>>

\* Number.prototype.toString of an integer
NumToString(n) == IF n < 0 THEN <<"-">> \o NatToString(0 - n) ELSE NatToString(n)

\* the longest prefix of s made of digits
RECURSIVE LeadingDigits(_)
LeadingDigits(s) ==
    IF s = <<>> \/ ~IsDigit(Head(s)) THEN <<>>
    ELSE <<Head(s)>> \o LeadingDigits(Tail(s))

\* the value of a sequence of digits
RECURSIVE DigitsValue(_)
DigitsValue(ds) ==
    IF ds = <<>> THEN 0
    ELSE DigitsValue(SubSeq(ds, 1, Len(ds) - 1)) * 10 + DigitVal(ds[Len(ds)])

Drop(s, n) == SubSeq(s, n + 1, Len(s))

\* parseInt(s): optional sign, then the leading digits; NaN without a digit
parseInt(s) ==
    LET neg  == s # <<>> /\ Head(s) = "-"
        body == IF neg THEN Tail(s) ELSE s
        ds   == LeadingDigits(body)
    IN  IF ds = <<>> THEN [nan |-> TRUE, val |-> 0]
        ELSE [nan |-> FALSE,
              val |-> IF neg THEN 0 - DigitsValue(ds) ELSE DigitsValue(ds)]

\* parseInt(s) || 0 : NaN and 0 are falsy
ParseIntOr0(s) == IF parseInt(s).nan \/ parseInt(s).val = 0 THEN 0 ELSE parseInt(s).val

\* parseFloat(s): optional sign, digits, optional "." and digits; the
\* number is returned in tenths; NaN when no digit can be read
parseFloat(s) ==
    LET neg   == s # <<>> /\ Head(s) = "-"
        body  == IF neg THEN Tail(s) ELSE s
        ip    == LeadingDigits(body)
        rest  == Drop(body, Len(ip))
        fp    == IF rest # <<>> /\ Head(rest) = "." THEN LeadingDigits(Tail(rest))
                 ELSE <<>>
        mag   == DigitsValue(ip) * 10 + (IF fp = <<>> THEN 0 ELSE DigitVal(fp[1]))
    IN  IF ip = <<>> /\ fp = <<>> THEN [nan |-> TRUE, tenths |-> 0]
        ELSE [nan |-> FALSE, tenths |-> IF neg THEN 0 - mag ELSE mag]

\* temp >= n and temp <= n for a parsed number and an integer literal:
\* every comparison with NaN is false
Ge(temp, n) == ~temp.nan /\ temp.tenths >= n * 10
Le(temp, n) == ~temp.nan /\ temp.tenths <= n * 10

\* ----------------------------------------------- soil-aware crop rules
\* mutant: the soil bonus is added to a score that already holds it
RiceRule_BonusAdded(temp, soil) ==
    IF Ge(temp, 25) /\ Le(temp, 35)
    THEN <<[name |-> "Rice",
            suitability |-> IF soil = "clayey" \/ soil = "black" THEN 95 + 10
                            ELSE IF soil = "loamy" THEN 90 + 5 ELSE 85,
            reason |-> IF soil = "clayey" \/ soil = "black"
                       THEN <<"Optimal temperature and ", soil,
                              " soil excellent for rice cultivation with high water retention">>
                       ELSE IF soil = "loamy"
                       THEN <<"Optimal temperature and loamy soil good for rice cultivation">>
                       ELSE <<"Optimal temperature for rice cultivation">>,
            growthPeriod |-> "120-140 days",
            expectedYield |-> "4-6 tons/hectare",
            waterRequirement |-> "High (1200-1500mm)"]>>
    ELSE <<>>

RiceRule(temp, soil) ==
    IF Ge(temp, 25) /\ Le(temp, 35)
    THEN <<[name |-> "Rice",
            suitability |-> IF soil = "clayey" \/ soil = "black" THEN 95
                            ELSE IF soil = "loamy" THEN 90 ELSE 85,
            reason |-> IF soil = "clayey" \/ soil = "black"
                       THEN <<"Optimal temperature and ", soil,
                              " soil excellent for rice cultivation with high water retention">>
                       ELSE IF soil = "loamy"
                       THEN <<"Optimal temperature and loamy soil good for rice cultivation">>
                       ELSE <<"Optimal temperature for rice cultivation">>,
            growthPeriod |-> "120-140 days",
            expectedYield |-> "4-6 tons/hectare",
            waterRequirement |-> "High (1200-1500mm)"]>>
    ELSE <<>>

\* mutant: black soil scored as clayey soil
WheatRule_BlackAsClayey(temp, soil) ==
    IF Ge(temp, 20) /\ Le(temp, 30)
    THEN <<[name |-> "Wheat",
            suitability |-> IF soil = "loamy" THEN 90
                            ELSE IF soil = "clayey" \/ soil = "black" THEN 85 ELSE 80,
            reason |-> IF soil = "loamy" \/ soil = "black"
                       THEN <<"Good temperature range and ", soil,
                              " soil ideal for wheat cultivation">>
                       ELSE IF soil = "clayey"
                       THEN <<"Good temperature and clayey soil suitable for wheat">>
                       ELSE <<"Good temperature range for wheat">>,
            growthPeriod |-> "120-150 days",
            expectedYield |-> "3-4 tons/hectare",
            waterRequirement |-> "Medium (450-650mm)"]>>
    ELSE <<>>

WheatRule(temp, soil) ==
    IF Ge(temp, 20) /\ Le(temp, 30)
    THEN <<[name |-> "Wheat",
            suitability |-> IF soil = "loamy" \/ soil = "black" THEN 90
                            ELSE IF soil = "clayey" THEN 85 ELSE 80,
            reason |-> IF soil = "loamy" \/ soil = "black"
                       THEN <<"Good temperature range and ", soil,
                              " soil ideal for wheat cultivation">>
                       ELSE IF soil = "clayey"
                       THEN <<"Good temperature and clayey soil suitable for wheat">>
                       ELSE <<"Good temperature range for wheat">>,
            growthPeriod |-> "120-150 days",
            expectedYield |-> "3-4 tons/hectare",
            waterRequirement |-> "Medium (450-650mm)"]>>
    ELSE <<>>

\* mutant: the cotton test hangs as an else-branch of the rice test
CottonRule_ElseIf(temp, soil, potassium) ==
    IF ~(Ge(temp, 25) /\ Le(temp, 35)) /\ Ge(temp, 25) /\ Le(temp, 40) /\ potassium > 40
    THEN <<[name |-> "Cotton",
            suitability |-> IF soil = "black" \/ soil = "red" THEN 90
                            ELSE IF soil = "loamy" THEN 85 ELSE 75,
            reason |-> IF soil = "black" \/ soil = "red"
                       THEN <<"High potassium, warm temperature and ", soil,
                              " soil excellent for cotton cultivation">>
                       ELSE IF soil = "loamy"
                       THEN <<"High potassium, warm temperature and loamy soil good for cotton">>
                       ELSE <<"High potassium and warm temperature for cotton">>,
            growthPeriod |-> "160-200 days",
            expectedYield |-> "2-3 tons/hectare",
            waterRequirement |-> "Medium (700-1200mm)"]>>
    ELSE <<>>

\* mutant: the potassium test is not strict
CottonRule_NonStrict(temp, soil, potassium) ==
    IF Ge(temp, 25) /\ Le(temp, 40) /\ potassium >= 40
    THEN <<[name |-> "Cotton",
            suitability |-> IF soil = "black" \/ soil = "red" THEN 90
                            ELSE IF soil = "loamy" THEN 85 ELSE 75,
            reason |-> IF soil = "black" \/ soil = "red"
                       THEN <<"High potassium, warm temperature and ", soil,
                              " soil excellent for cotton cultivation">>
                       ELSE IF soil = "loamy"
                       THEN <<"High potassium, warm temperature and loamy soil good for cotton">>
                       ELSE <<"High potassium and warm temperature for cotton">>,
            growthPeriod |-> "160-200 days",
            expectedYield |-> "2-3 tons/hectare",
            waterRequirement |-> "Medium (700-1200mm)"]>>
    ELSE <<>>

CottonRule(temp, soil, potassium) ==
    IF Ge(temp, 25) /\ Le(temp, 40) /\ potassium > 40
    THEN <<[name |-> "Cotton",
            suitability |-> IF soil = "black" \/ soil = "red" THEN 90
                            ELSE IF soil = "loamy" THEN 85 ELSE 75,
            reason |-> IF soil = "black" \/ soil = "red"
                       THEN <<"High potassium, warm temperature and ", soil,
                              " soil excellent for cotton cultivation">>
                       ELSE IF soil = "loamy"
                       THEN <<"High potassium, warm temperature and loamy soil good for cotton">>
                       ELSE <<"High potassium and warm temperature for cotton">>,
            growthPeriod |-> "160-200 days",
            expectedYield |-> "2-3 tons/hectare",
            waterRequirement |-> "Medium (700-1200mm)"]>>
    ELSE <<>>

\* mutant: the red-soil branch is missing
PotatoRule_RedAsBase(temp, soil) ==
    IF Ge(temp, 15) /\ Le(temp, 25)
    THEN <<[name |-> "Potato",
            suitability |-> IF soil = "loamy" \/ soil = "sandy" THEN 85 ELSE 70,
            reason |-> IF soil = "loamy" \/ soil = "sandy"
                       THEN <<"Cool temperature and ", soil,
                              " soil excellent for potato cultivation with good drainage">>
                       ELSE <<"Cool temperature suitable for potato">>,
            growthPeriod |-> "90-120 days",
            expectedYield |-> "20-25 tons/hectare",
            waterRequirement |-> "Medium (500-700mm)"]>>
    ELSE <<>>

PotatoRule(temp, soil) ==
    IF Ge(temp, 15) /\ Le(temp, 25)
    THEN <<[name |-> "Potato",
            suitability |-> IF soil = "loamy" \/ soil = "sandy" THEN 85
                            ELSE IF soil = "red" THEN 80 ELSE 70,
            reason |-> IF soil = "loamy" \/ soil = "sandy"
                       THEN <<"Cool temperature and ", soil,
                              " soil excellent for potato cultivation with good drainage">>
                       ELSE IF soil = "red"
                       THEN <<"Cool temperature and red soil good for potato cultivation">>
                       ELSE <<"Cool temperature suitable for potato">>,
            growthPeriod |-> "90-120 days",
            expectedYield |-> "20-25 tons/hectare",
            waterRequirement |-> "Medium (500-700mm)"]>>
    ELSE <<>>

\* mutant: the groundnut range ends at 30
GroundnutRule_NarrowRange(temp, soil) ==
    IF soil = "sandy" /\ Ge(temp, 20) /\ Le(temp, 30)
    THEN <<[name |-> "Groundnut",
            suitability |-> 88,
            reason |-> <<"Sandy soil with good drainage perfect for groundnut cultivation">>,
            growthPeriod |-> "120-130 days",
            expectedYield |-> "2-3 tons/hectare",
            waterRequirement |-> "Medium (500-700mm)"]>>
    ELSE <<>>

\* mutant: the groundnut range ends at 40
GroundnutRule_WideRange(temp, soil) ==
    IF soil = "sandy" /\ Ge(temp, 20) /\ Le(temp, 40)
    THEN <<[name |-> "Groundnut",
            suitability |-> 88,
            reason |-> <<"Sandy soil with good drainage perfect for groundnut cultivation">>,
            growthPeriod |-> "120-130 days",
            expectedYield |-> "2-3 tons/hectare",
            waterRequirement |-> "Medium (500-700mm)"]>>
    ELSE <<>>

GroundnutRule(temp, soil) ==
    IF soil = "sandy" /\ Ge(temp, 20) /\ Le(temp, 35)
    THEN <<[name |-> "Groundnut",
            suitability |-> 88,
            reason |-> <<"Sandy soil with good drainage perfect for groundnut cultivation">>,
            growthPeriod |-> "120-130 days",
            expectedYield |-> "2-3 tons/hectare",
            waterRequirement |-> "Medium (500-700mm)"]>>
    ELSE <<>>

MilletsRule(temp, soil) ==
    IF soil = "red" /\ Ge(temp, 20) /\ Le(temp, 30)
    THEN <<[name |-> "Millets",
            suitability |-> 85,
            reason |-> <<"Red soil with good mineral content ideal for drought-resistant millets">>,
            growthPeriod |-> "75-100 days",
            expectedYield |-> "1-2 tons/hectare",
            waterRequirement |-> "Low (300-500mm)"]>>
    ELSE <<>>

\* mutant: the rice entry is pushed twice
CropSuggestions_RiceTwice(temp, soil, potassium) ==
    RiceRule(temp, soil) \o RiceRule(temp, soil) \o WheatRule(temp, soil)
    \o CottonRule(temp, soil, potassium) \o PotatoRule(temp, soil)
    \o GroundnutRule(temp, soil) \o MilletsRule(temp, soil)

\* mutant: on sandy soil the groundnut entry takes the place of the potato
\* entry
CropSuggestions_GroundnutReplacesPotato(temp, soil, potassium) ==
    RiceRule(temp, soil) \o WheatRule(temp, soil) \o CottonRule(temp, soil, potassium)
    \o (IF GroundnutRule(temp, soil) # <<>> THEN <<>> ELSE PotatoRule(temp, soil))
    \o GroundnutRule(temp, soil) \o MilletsRule(temp, soil)

\* cropSuggestions after the six pushes, before the sort
CropSuggestions(temp, soil, potassium) ==
    RiceRule(temp, soil) \o WheatRule(temp, soil) \o CottonRule(temp, soil, potassium)
    \o PotatoRule(temp, soil) \o GroundnutRule(temp, soil) \o MilletsRule(temp, soil)

\* ---------------------------------------------------- simple crop rules
CropSuggestionsSimple(temp, potassium) ==
    (IF Ge(temp, 25) /\ Le(temp, 35)
     THEN <<[name |-> "Rice", suitability |-> 95,
             reason |-> <<"Optimal temperature and high nitrogen content suitable for rice cultivation">>,
             growthPeriod |-> "120-140 days",
             expectedYield |-> "4-6 tons/hectare",
             waterRequirement |-> "High (1200-1500mm)"]>>
     ELSE <<>>)
    \o
    (IF Ge(temp, 20) /\ Le(temp, 30)
     THEN <<[name |-> "Wheat", suitability |-> 88,
             reason |-> <<"Good temperature range with adequate phosphorus levels">>,
             growthPeriod |-> "120-150 days",
             expectedYield |-> "3-4 tons/hectare",
             waterRequirement |-> "Medium (450-650mm)"]>>
     ELSE <<>>)
    \o
    (IF Ge(temp, 25) /\ Le(temp, 40) /\ potassium > 40
     THEN <<[name |-> "Cotton", suitability |-> 82,
             reason |-> <<"High potassium content and warm temperature ideal for cotton">>,
             growthPeriod |-> "160-200 days",
             expectedYield |-> "2-3 tons/hectare",
             waterRequirement |-> "Medium (700-1200mm)"]>>
     ELSE <<>>)
    \o
    (IF Ge(temp, 15) /\ Le(temp, 25)
     THEN <<[name |-> "Potato", suitability |-> 78,
             reason |-> <<"Cool temperature with balanced NPK suitable for tuber development">>,
             growthPeriod |-> "90-120 days",
             expectedYield |-> "20-25 tons/hectare",
             waterRequirement |-> "Medium (500-700mm)"]>>
     ELSE <<>>)

\* ------------------------------------------------------ fertilizer rules
Urea ==
    [name |-> "Urea", type |-> "Nitrogen Fertilizer",
     application |-> "Soil Application", quantity |-> "100-150 kg/hectare",
     timing |-> "Pre-sowing and top-dressing"]

DAP ==
    [name |-> "DAP (Di-Ammonium Phosphate)", type |-> "Phosphorus Fertilizer",
     application |-> "Basal Application", quantity |-> "100-125 kg/hectare",
     timing |-> "At the time of sowing"]

MuriateOfPotash ==
    [name |-> "Muriate of Potash", type |-> "Potassium Fertilizer",
     application |-> "Soil Application", quantity |-> "80-100 kg/hectare",
     timing |-> "Pre-sowing"]

Vermicompost ==
    [name |-> "Vermicompost", type |-> "Organic Fertilizer",
     application |-> "Soil Incorporation", quantity |-> "2-3 tons/hectare",
     timing |-> "15-20 days before sowing"]

\* mutant: the potassium rule is pushed before the phosphorus rule
FertilizerSuggestions_Reordered(nitrogen, phosphorus, potassium) ==
    (IF nitrogen < 50 THEN <<Urea>> ELSE <<>>)
    \o (IF potassium < 45 THEN <<MuriateOfPotash>> ELSE <<>>)
    \o (IF phosphorus < 40 THEN <<DAP>> ELSE <<>>)
    \o <<Vermicompost>>

\* mutant: the organic entry is pushed only when no nutrient rule fired
FertilizerSuggestions_OrganicFallback(nitrogen, phosphorus, potassium) ==
    LET rules == (IF nitrogen < 50 THEN <<Urea>> ELSE <<>>)
                 \o (IF phosphorus < 40 THEN <<DAP>> ELSE <<>>)
                 \o (IF potassium < 45 THEN <<MuriateOfPotash>> ELSE <<>>)
    IN  IF rules = <<>> THEN <<Vermicompost>> ELSE rules

\* fertilizerSuggestions of the soil-aware component
FertilizerSuggestions(nitrogen, phosphorus, potassium) ==
    (IF nitrogen < 50 THEN <<Urea>> ELSE <<>>)
    \o (IF phosphorus < 40 THEN <<DAP>> ELSE <<>>)
    \o (IF potassium < 45 THEN <<MuriateOfPotash>> ELSE <<>>)
    \o <<Vermicompost>>

\* mutant: the simple component has no organic entry
FertilizerSuggestionsSimple_NoOrganic(nitrogen, phosphorus, potassium) ==
    (IF nitrogen < 50 THEN <<Urea>> ELSE <<>>)
    \o (IF phosphorus < 40 THEN <<DAP>> ELSE <<>>)
    \o (IF potassium < 45 THEN <<MuriateOfPotash>> ELSE <<>>)

\* fertilizerSuggestions of the simple component
FertilizerSuggestionsSimple(nitrogen, phosphorus, potassium) ==
    (IF nitrogen < 50 THEN <<Urea>> ELSE <<>>)
    \o (IF phosphorus < 40 THEN <<DAP>> ELSE <<>>)
    \o (IF potassium < 45 THEN <<MuriateOfPotash>> ELSE <<>>)
    \o <<Vermicompost>>

\* ----------------------------------------------------------------- ranking
\* x placed into a list already ordered by (a, b) => b.suitability -
\* a.suitability, behind every entry the comparator does not put after it
RECURSIVE InsertBySuitability(_, _)
InsertBySuitability(x, sorted) ==
    IF sorted = <<>> THEN <<x>>
    ELSE IF Head(sorted).suitability - x.suitability < 0
         THEN <<x>> \o sorted
         ELSE <<Head(sorted)>> \o InsertBySuitability(x, Tail(sorted))

\* x placed before the entries of equal suitability
RECURSIVE InsertBeforeEqual(_, _)
InsertBeforeEqual(x, sorted) ==
    IF sorted = <<>> THEN <<x>>
    ELSE IF Head(sorted).suitability - x.suitability <= 0
         THEN <<x>> \o sorted
         ELSE <<Head(sorted)>> \o InsertBeforeEqual(x, Tail(sorted))

\* mutant: the list is presented in push order
SortBySuitability_Unsorted(s) == s

\* mutant: a sort that is not stable (equal entries come out reversed)
RECURSIVE SortBySuitability_Unstable(_)
SortBySuitability_Unstable(s) ==
    IF s = <<>> THEN <<>>
    ELSE InsertBeforeEqual(s[Len(s)], SortBySuitability_Unstable(SubSeq(s, 1, Len(s) - 1)))

\* Array.prototype.sort((a, b) => b.suitability - a.suitability): a stable
\* sort, descending by suitability
RECURSIVE SortBySuitability(_)
SortBySuitability(s) ==
    IF s = <<>> THEN <<>>
    ELSE InsertBySuitability(s[Len(s)], SortBySuitability(SubSeq(s, 1, Len(s) - 1)))

\* mutant: the callback reads the first suggestion of an empty list and
\* throws before it sets anything
Evaluate_ThrowsOnEmpty(temperatureText, soil, npk) ==
    LET temp == parseFloat(temperatureText)
    IN  IF CropSuggestions(temp, soil, npk.potassium) = <<>> THEN Null
        ELSE [crops |-> SortBySuitability(CropSuggestions(temp, soil, npk.potassium)),
              fertilizers |-> FertilizerSuggestions(npk.nitrogen, npk.phosphorus,
                                                    npk.potassium)]

\* mutant: the potassium test is lowered on sandy soil
Evaluate_SoilAdjusted(temperatureText, soil, npk) ==
    LET temp == parseFloat(temperatureText)
    IN  [crops |-> SortBySuitability(CropSuggestions(temp, soil, npk.potassium)),
         fertilizers |-> FertilizerSuggestions(npk.nitrogen, npk.phosphorus,
                            IF soil = "sandy" THEN npk.potassium - 10 ELSE npk.potassium)]

\* mutant: the cotton test compares potassium with phosphorus
Evaluate_CottonVersusPhosphorus(temperatureText, soil, npk) ==
    LET temp == parseFloat(temperatureText)
    IN  [crops |-> SortBySuitability(CropSuggestions(temp, soil,
                      IF npk.potassium > npk.phosphorus THEN 41 ELSE 40)),
         fertilizers |-> FertilizerSuggestions(npk.nitrogen, npk.phosphorus, npk.potassium)]

\* the value handed to setRecommendations by the setTimeout callback of
\* the soil-aware component, from the values its closure captured
Evaluate(temperatureText, soil, npk) ==
    LET temp == parseFloat(temperatureText)
    IN  [crops |-> SortBySuitability(CropSuggestions(temp, soil, npk.potassium)),
         fertilizers |-> FertilizerSuggestions(npk.nitrogen, npk.phosphorus, npk.potassium)]

\* the same of the simple component
EvaluateSimple(temperatureText, npk) ==
    LET temp == parseFloat(temperatureText)
    IN  [crops |-> SortBySuitability(CropSuggestionsSimple(temp, npk.potassium)),
         fertilizers |-> FertilizerSuggestionsSimple(npk.nitrogen, npk.phosphorus, npk.potassium)]

\* -------------------------------------------------------------- validation
TemperatureError == [kind |-> "error", message |-> "Please enter the current temperature"]
SoilTypeError    == [kind |-> "error", message |-> "Please select the soil type"]
NpkError         == [kind |-> "error", message |-> "Please enter NPK values"]
ConditionsLoaded == [kind |-> "success", message |-> "Current conditions loaded from your location"]
Generated        == [kind |-> "success", message |-> "AI recommendations generated successfully!"]

\* mutant: every failing check reports, none returns
Validate_AllErrors(temperatureText, soil, npk) ==
    (IF temperatureText = <<>> \/ temperatureText = <<"0">> THEN <<TemperatureError>> ELSE <<>>)
    \o (IF soil = "" THEN <<SoilTypeError>> ELSE <<>>)
    \o (IF npk.nitrogen = 0 /\ npk.phosphorus = 0 /\ npk.potassium = 0
        THEN <<NpkError>> ELSE <<>>)

\* mutant: the NPK check fails when any index is zero
Validate_AnyZero(temperatureText, soil, npk) ==
    IF temperatureText = <<>> \/ temperatureText = <<"0">> THEN <<TemperatureError>>
    ELSE IF soil = "" THEN <<SoilTypeError>>
    ELSE IF npk.nitrogen = 0 \/ npk.phosphorus = 0 \/ npk.potassium = 0 THEN <<NpkError>>
    ELSE <<>>

\* mutant: the soil type check is missing
Validate_NoSoilCheck(temperatureText, soil, npk) ==
    IF temperatureText = <<>> \/ temperatureText = <<"0">> THEN <<TemperatureError>>
    ELSE IF npk.nitrogen = 0 /\ npk.phosphorus = 0 /\ npk.potassium = 0 THEN <<NpkError>>
    ELSE <<>>

\* the toasts of the three early returns of generateRecommendations
\* (soil-aware component): the first failing check, or none
Validate(temperatureText, soil, npk) ==
    IF temperatureText = <<>> \/ temperatureText = <<"0">> THEN <<TemperatureError>>
    ELSE IF soil = "" THEN <<SoilTypeError>>
    ELSE IF npk.nitrogen = 0 /\ npk.phosphorus = 0 /\ npk.potassium = 0 THEN <<NpkError>>
    ELSE <<>>

\* the same of the simple component, which has no soil type
ValidateSimple(temperatureText, npk) ==
    IF temperatureText = <<>> \/ temperatureText = <<"0">> THEN <<TemperatureError>>
    ELSE IF npk.nitrogen = 0 /\ npk.phosphorus = 0 /\ npk.potassium = 0 THEN <<NpkError>>
    ELSE <<>>

\* ------------------------------------------------------------ the screens
Variants == {"soil-aware", "simple"}

SoilTypes == {"loamy", "clayey", "black", "sandy", "red"}

DetailScreens == {"weather-details", "market-details", "crop-recommendation",
                  "pest-detection", "chat", "feedback"}

UserData == [phoneNumber |-> "9876543210", location |-> "GPS Auto-detected",
             language |-> "English"]

\* what the user types or picks in the interleaving specification
TemperatureEdits == {<<>>, <<"0">>, NumToString(22)}
SoilEdits == {"sandy"}
NpkEdits == {<<>>}

\* useState initial values of the recommendation screen
InitialNpk == [nitrogen |-> 0, phosphorus |-> 0, potassium |-> 0]

\* mockData of the mount effect
MockTemperature == 28
MockNpk == [nitrogen |-> 45, phosphorus |-> 35, potassium |-> 50]

Mounted == currentScreen = "crop-recommendation"

\* mutant: the callbacks of the unmounted component reach the next one
Orphaned_StillBound(ts) == ts

\* the pending callbacks once their component is unmounted: their state
\* setters no longer reach a mounted component
Orphaned(ts) == [i \in 1..Len(ts) |-> [ts[i] EXCEPT !.mounted = FALSE]]

\* useState initial values of the ChatBot component
ChatInit ==
    /\ messages = <<>>
    /\ inputText = <<>>
    /\ isTyping = FALSE
    /\ replyTimers = <<>>

\* the welcome message of the mount effect of ChatBot
WelcomeMessage ==
    [id |-> "welcome", sender |-> "bot",
     text |-> "Welcome to AgroSmart AI Assistant! I'm here to help you with farming questions, weather information, crop advice, and more. How can I assist you today?"]

\* entering the chat screen mounts ChatBot and runs its mount effect
ChatMount(screen) ==
    IF screen = "chat"
    THEN /\ messages' = <<WelcomeMessage>>
         /\ inputText' = <<>>
         /\ isTyping' = FALSE
         /\ UNCHANGED replyTimers
    ELSE UNCHANGED chatVars

\* leaving the chat screen unmounts ChatBot, its pending timeouts stay
\* scheduled
ChatUnmount ==
    IF currentScreen = "chat"
    THEN /\ messages' = <<>>
         /\ inputText' = <<>>
         /\ isTyping' = FALSE
         /\ replyTimers' = Orphaned(replyTimers)
    ELSE UNCHANGED chatVars

Init ==
    /\ variant \in Variants
    /\ currentScreen = "auth"
    /\ user = Null
    /\ temperature = <<>>
    /\ soilType = ""
    /\ npkValues = InitialNpk
    /\ loading = FALSE
    /\ recommendations = Null
    /\ timers = <<>>
    /\ toasts = <<>>
    /\ lastOp = "init"
    /\ lastFired = Null
    /\ firstEval = Null
    /\ ChatInit

\* AuthScreen onLogin: setUser(userData); setCurrentScreen("home")
OnLogin ==
    /\ currentScreen = "auth"
    /\ user' = UserData
    /\ currentScreen' = "home"
    /\ toasts' = <<>>
    /\ lastOp' = "login"
    /\ UNCHANGED <<firstEval, chatVars>>
    /\ lastFired' = Null
    /\ UNCHANGED <<variant, temperature, soilType, npkValues, loading,
                   recommendations, timers>>

\* mutant: the mount effect also preselects a soil type
OnNavigate_SoilPreselected(screen) ==
    /\ currentScreen = "home"
    /\ user # Null
    /\ currentScreen' = screen
    /\ IF screen = "crop-recommendation"
       THEN /\ temperature' = NumToString(MockTemperature)
            /\ npkValues' = MockNpk
            /\ soilType' = "loamy"
            /\ loading' = FALSE
            /\ recommendations' = Null
            /\ toasts' = <<ConditionsLoaded>>
       ELSE /\ toasts' = <<>>
            /\ UNCHANGED <<temperature, npkValues, soilType, loading, recommendations>>
    /\ lastOp' = "navigate"
    /\ ChatMount(screen)
    /\ UNCHANGED firstEval
    /\ lastFired' = Null
    /\ UNCHANGED <<variant, user, timers>>

\* HomePage onNavigate(screen); entering the recommendation screen mounts
\* the component and runs its mount effect
OnNavigate(screen) ==
    /\ currentScreen = "home"
    /\ user # Null
    /\ currentScreen' = screen
    /\ IF screen = "crop-recommendation"
       THEN /\ temperature' = NumToString(MockTemperature)
            /\ npkValues' = MockNpk
            /\ soilType' = ""
            /\ loading' = FALSE
            /\ recommendations' = Null
            /\ toasts' = <<ConditionsLoaded>>
       ELSE /\ toasts' = <<>>
            /\ UNCHANGED <<temperature, npkValues, soilType, loading, recommendations>>
    /\ lastOp' = "navigate"
    /\ ChatMount(screen)
    /\ UNCHANGED firstEval
    /\ lastFired' = Null
    /\ UNCHANGED <<variant, user, timers>>

\* onBack of a detail screen; leaving the recommendation screen unmounts
\* the component, its pending timeouts stay scheduled
OnBack ==
    /\ currentScreen \in DetailScreens
    /\ currentScreen' = "home"
    /\ IF Mounted
       THEN /\ temperature' = <<>>
            /\ soilType' = ""
            /\ npkValues' = InitialNpk
            /\ loading' = FALSE
            /\ recommendations' = Null
            /\ timers' = Orphaned(timers)
       ELSE UNCHANGED <<temperature, soilType, npkValues, loading,
                        recommendations, timers>>
    /\ toasts' = <<>>
    /\ lastOp' = "back"
    /\ ChatUnmount
    /\ UNCHANGED firstEval
    /\ lastFired' = Null
    /\ UNCHANGED <<variant, user>>

\* onChange of the temperature input
SetTemperature(value) ==
    /\ Mounted
    /\ temperature' = value
    /\ toasts' = <<>>
    /\ lastOp' = "setTemperature"
    /\ UNCHANGED <<firstEval, chatVars>>
    /\ lastFired' = Null
    /\ UNCHANGED <<variant, currentScreen, user, soilType, npkValues, loading,
                   recommendations, timers>>

\* onValueChange of the soil type select (soil-aware component only)
SetSoilType(value) ==
    /\ Mounted
    /\ variant = "soil-aware"
    /\ soilType' = value
    /\ toasts' = <<>>
    /\ lastOp' = "setSoilType"
    /\ UNCHANGED <<firstEval, chatVars>>
    /\ lastFired' = Null
    /\ UNCHANGED <<variant, currentScreen, user, temperature, npkValues, loading,
                   recommendations, timers>>

\* onChange of the three NPK inputs
SetNitrogen(value) ==
    /\ Mounted
    /\ npkValues' = [npkValues EXCEPT !.nitrogen = ParseIntOr0(value)]
    /\ toasts' = <<>>
    /\ lastOp' = "setNitrogen"
    /\ UNCHANGED <<firstEval, chatVars>>
    /\ lastFired' = Null
    /\ UNCHANGED <<variant, currentScreen, user, temperature, soilType, loading,
                   recommendations, timers>>

SetPhosphorus(value) ==
    /\ Mounted
    /\ npkValues' = [npkValues EXCEPT !.phosphorus = ParseIntOr0(value)]
    /\ toasts' = <<>>
    /\ lastOp' = "setPhosphorus"
    /\ UNCHANGED <<firstEval, chatVars>>
    /\ lastFired' = Null
    /\ UNCHANGED <<variant, currentScreen, user, temperature, soilType, loading,
                   recommendations, timers>>

SetPotassium(value) ==
    /\ Mounted
    /\ npkValues' = [npkValues EXCEPT !.potassium = ParseIntOr0(value)]
    /\ toasts' = <<>>
    /\ lastOp' = "setPotassium"
    /\ UNCHANGED <<firstEval, chatVars>>
    /\ lastFired' = Null
    /\ UNCHANGED <<variant, currentScreen, user, temperature, soilType, loading,
                   recommendations, timers>>

\* the validation toasts of a click, by component
ValidationToasts ==
    IF variant = "soil-aware" THEN Validate(temperature, soilType, npkValues)
    ELSE ValidateSimple(temperature, npkValues)

\* mutant: loading is set before the checks
GenerateRecommendations_LoadingFirst ==
    /\ Mounted
    /\ ~loading
    /\ \/ /\ ValidationToasts # <<>>
          /\ toasts' = ValidationToasts
          /\ loading' = TRUE
          /\ UNCHANGED timers
       \/ /\ ValidationToasts = <<>>
          /\ Len(timers) < MaxTimers
          /\ loading' = TRUE
          /\ timers' = Append(timers, [temperature |-> temperature,
                                       soilType |-> soilType,
                                       npkValues |-> npkValues,
                                       mounted |-> TRUE])
          /\ toasts' = <<>>
    /\ lastOp' = "generate"
    /\ UNCHANGED <<firstEval, chatVars>>
    /\ lastFired' = Null
    /\ UNCHANGED <<variant, currentScreen, user, temperature, soilType, npkValues,
                   recommendations>>

\* click on the submit button (disabled while loading): the early returns,
\* or setLoading(true) and setTimeout(callback, 2000)
GenerateRecommendations ==
    /\ Mounted
    /\ ~loading
    /\ \/ /\ ValidationToasts # <<>>
          /\ toasts' = ValidationToasts
          /\ UNCHANGED <<loading, timers>>
       \/ /\ ValidationToasts = <<>>
          /\ Len(timers) < MaxTimers
          /\ loading' = TRUE
          /\ timers' = Append(timers, [temperature |-> temperature,
                                       soilType |-> soilType,
                                       npkValues |-> npkValues,
                                       mounted |-> TRUE])
          /\ toasts' = <<>>
    /\ lastOp' = "generate"
    /\ UNCHANGED <<firstEval, chatVars>>
    /\ lastFired' = Null
    /\ UNCHANGED <<variant, currentScreen, user, temperature, soilType, npkValues,
                   recommendations>>

\* mutant: the suggestions array outlives the callback and keeps the
\* entries of the evaluation before
TimerResult_Accumulating(t) ==
    LET fresh == IF variant = "soil-aware"
                 THEN Evaluate(t.temperature, t.soilType, t.npkValues)
                 ELSE EvaluateSimple(t.temperature, t.npkValues)
        kept  == IF recommendations = Null THEN <<>> ELSE recommendations.crops
    IN  [fresh EXCEPT !.crops = SortBySuitability(kept \o fresh.crops)]

\* mutant: the callback reads the fields as they are when it runs
TimerResult_ReadsCurrentState(t) ==
    IF variant = "soil-aware" THEN Evaluate(temperature, soilType, npkValues)
    ELSE EvaluateSimple(temperature, npkValues)

\* the result the callback computes from its closure
TimerResult(t) ==
    IF variant = "soil-aware" THEN Evaluate(t.temperature, t.soilType, t.npkValues)
    ELSE EvaluateSimple(t.temperature, t.npkValues)

\* mutant: the callback does not call setLoading(false)
TimerStep_LoadingKept ==
    /\ timers # <<>>
    /\ LET t == Head(timers)
       IN  /\ IF t.mounted
              THEN /\ recommendations' = TimerResult(t)
                   /\ UNCHANGED loading
              ELSE UNCHANGED <<recommendations, loading>>
           /\ lastFired' = t
    /\ timers' = Tail(timers)
    /\ toasts' = <<Generated>>
    /\ lastOp' = "timer"
    /\ UNCHANGED <<variant, currentScreen, user, temperature, soilType, npkValues>>

\* the oldest pending timeout fires (all have the same delay): the
\* callback evaluates, setRecommendations, setLoading(false), toast.success
TimerStep ==
    /\ timers # <<>>
    /\ LET t == Head(timers)
       IN  /\ IF t.mounted
              THEN /\ recommendations' = TimerResult(t)
                   /\ loading' = FALSE
              ELSE UNCHANGED <<recommendations, loading>>
           /\ lastFired' = t
    /\ timers' = Tail(timers)
    /\ toasts' = <<Generated>>
    /\ lastOp' = "timer"
    /\ UNCHANGED <<variant, currentScreen, user, temperature, soilType, npkValues>>

TimerFire == TimerStep /\ UNCHANGED <<firstEval, chatVars>>

\* the same step, with the record of the first evaluation of the visit
\* kept: its closure, what it presented, and whether a different closure
\* has been evaluated since
TimerFireRecorded ==
    /\ TimerStep
    /\ UNCHANGED chatVars
    /\ LET t == Head(timers)
       IN  firstEval' =
              IF ~t.mounted THEN firstEval
              ELSE IF firstEval = Null
                   THEN [input |-> t, result |-> recommendations', between |-> FALSE]
              ELSE IF t # firstEval.input
                   THEN [firstEval EXCEPT !.between = TRUE]
              ELSE firstEval

Next ==
    \/ OnLogin
    \/ \E screen \in DetailScreens : OnNavigate(screen)
    \/ OnBack
    \/ \E value \in TemperatureEdits : SetTemperature(value)
    \/ \E value \in SoilEdits : SetSoilType(value)
    \/ \E value \in NpkEdits : SetNitrogen(value)
    \/ \E value \in NpkEdits : SetPhosphorus(value)
    \/ \E value \in NpkEdits : SetPotassium(value)
    \/ GenerateRecommendations
    \/ TimerFire

Spec == Init /\ [][Next]_vars

\* --------------------------------------------- the engine specification
\* what can stand in the temperature field: '' and the value of a number
\* input, among them spellings of zero and fractions
OddTemperatures ==
    {<<>>, <<"0", "0">>, <<"0", ".", "0">>, <<"-", "0">>,
     <<"1", "4", ".", "9">>, <<"2", "5", ".", "5">>, <<"3", "5", ".", "1">>,
     <<"2", "0", "0">>}

TempInputs == {NumToString(n) : n \in (0 - TempBelow)..MaxTemp} \cup OddTemperatures

\* what can be typed in an NPK field
NitrogenTexts == {<<>>, NumToString(30), NumToString(45), NumToString(50),
                  <<"4", "9", ".", "9">>}
PhosphorusTexts == {<<>>, NumToString(25), NumToString(35), NumToString(40)}
PotassiumTexts == {<<>>, NumToString(20), NumToString(40), NumToString(41),
                   NumToString(45), NumToString(50), <<"-", "5">>}

\* the screen is mounted and the fields hold what the user typed
InitEngine ==
    /\ variant \in Variants
    /\ currentScreen = "crop-recommendation"
    /\ user = UserData
    /\ temperature \in TempInputs
    /\ soilType \in (IF variant = "soil-aware" THEN SoilTypes \cup {""} ELSE {""})
    /\ \E n \in NitrogenTexts, p \in PhosphorusTexts, k \in PotassiumTexts :
          npkValues = [nitrogen |-> ParseIntOr0(n), phosphorus |-> ParseIntOr0(p),
                       potassium |-> ParseIntOr0(k)]
    /\ loading = FALSE
    /\ recommendations = Null
    /\ timers = <<>>
    /\ toasts = <<>>
    /\ lastOp = "init"
    /\ lastFired = Null
    /\ firstEval = Null
    /\ ChatInit

NextEngine ==
    \/ GenerateRecommendations
    \/ TimerFire

SpecEngine == InitEngine /\ [][NextEngine]_vars

\* ------------------------------------------------------------ properties
\* the last step was a timeout callback of the mounted component: the
\* recommendations on screen are the ones it computed from lastFired
Presented == lastOp = "timer" /\ lastFired.mounted

Range(f) == {f[i] : i \in DOMAIN f}

CropNames == [i \in DOMAIN recommendations.crops |-> recommendations.crops[i].name]

CropScores == [i \in DOMAIN recommendations.crops |-> recommendations.crops[i].suitability]

FertilizerNames ==
    [i \in DOMAIN recommendations.fertilizers |-> recommendations.fertilizers[i].name]

FertilizerTypes ==
    [i \in DOMAIN recommendations.fertilizers |-> recommendations.fertilizers[i].type]

RuleTable == <<"Rice", "Wheat", "Cotton", "Potato", "Groundnut", "Millets">>

FertilizerTable == <<"Urea", "DAP (Di-Ammonium Phosphate)", "Muriate of Potash", "Vermicompost">>

IndexIn(table, x) == CHOOSE i \in DOMAIN table : table[i] = x

Mentions(reason, word) == \E i \in DOMAIN reason : reason[i] = word

\* C1: whenever recommendations are set, in either component, the crop
\* list is sorted non-increasingly by suitability.
C1_CropsSortedBySuitability ==
    recommendations # Null =>
        \A i \in 1..(Len(recommendations.crops) - 1) :
            recommendations.crops[i].suitability >= recommendations.crops[i + 1].suitability

\* a result whose push order (Wheat 80, Potato 85, Groundnut 88) had to be
\* rearranged
C1_Witness ==
    /\ Presented
    /\ variant = "soil-aware"
    /\ CropNames = <<"Groundnut", "Potato", "Wheat">>
    /\ CropScores = <<88, 85, 80>>

\* C2: crop suggestions of equal suitability appear in rule-table order
\* (Rice, Wheat, Cotton, Potato, Groundnut, Millets); temperature 25 on
\* loamy soil with potassium > 40 gives Rice 90, Wheat 90, Cotton 85,
\* Potato 85 in that order, and on red soil at 25..30 Rice (85) comes
\* before Millets (85).
C2_StableRanking ==
    recommendations # Null =>
        /\ \A i, j \in DOMAIN recommendations.crops :
              (i < j /\ CropScores[i] = CropScores[j])
                  => IndexIn(RuleTable, CropNames[i]) < IndexIn(RuleTable, CropNames[j])
        /\ (/\ Presented
            /\ variant = "soil-aware"
            /\ lastFired.temperature = <<"2", "5">>
            /\ lastFired.soilType = "loamy"
            /\ lastFired.npkValues.potassium > 40)
              => /\ CropNames = <<"Rice", "Wheat", "Cotton", "Potato">>
                 /\ CropScores = <<90, 90, 85, 85>>
        /\ (/\ Presented
            /\ variant = "soil-aware"
            /\ lastFired.soilType = "red"
            /\ lastFired.temperature \in {NumToString(n) : n \in 25..30})
              => \E i, j \in DOMAIN recommendations.crops :
                    /\ i < j
                    /\ CropNames[i] = "Rice" /\ CropScores[i] = 85
                    /\ CropNames[j] = "Millets" /\ CropScores[j] = 85

\* two ties in one result, each kept in table order
C2_Witness ==
    /\ Presented
    /\ lastFired.soilType = "loamy"
    /\ CropNames = <<"Rice", "Wheat", "Cotton", "Potato">>
    /\ CropScores[1] = CropScores[2]
    /\ CropScores[3] = CropScores[4]

\* C3: the fertilizer list holds Urea iff nitrogen < 50, DAP iff
\* phosphorus < 40, Muriate of Potash iff potassium < 45, and always
\* Vermicompost, in that order and nothing else; npk = {30, 25, 20} gives
\* the nitrogen, phosphorus, potassium and organic entries in that order.
C3_FertilizerSequence ==
    Presented =>
        LET npk == lastFired.npkValues
        IN  /\ Range(FertilizerNames) \subseteq Range(FertilizerTable)
            /\ \A i, j \in DOMAIN FertilizerNames :
                  i < j => IndexIn(FertilizerTable, FertilizerNames[i])
                              < IndexIn(FertilizerTable, FertilizerNames[j])
            /\ ("Urea" \in Range(FertilizerNames)) <=> (npk.nitrogen < 50)
            /\ ("DAP (Di-Ammonium Phosphate)" \in Range(FertilizerNames))
                  <=> (npk.phosphorus < 40)
            /\ ("Muriate of Potash" \in Range(FertilizerNames)) <=> (npk.potassium < 45)
            /\ "Vermicompost" \in Range(FertilizerNames)
            /\ (npk = [nitrogen |-> 30, phosphorus |-> 25, potassium |-> 20])
                  => FertilizerTypes = <<"Nitrogen Fertilizer", "Phosphorus Fertilizer",
                                         "Potassium Fertilizer", "Organic Fertilizer">>

C3_Witness ==
    /\ Presented
    /\ lastFired.npkValues = [nitrogen |-> 30, phosphorus |-> 25, potassium |-> 20]
    /\ Len(recommendations.fertilizers) = 4

\* C4: the fertilizer list is never empty and ends with the organic entry
\* (Vermicompost); with nitrogen >= 50, phosphorus >= 40 and potassium >= 45
\* it is exactly [Vermicompost].
C4_OrganicLast ==
    recommendations # Null =>
        /\ Len(recommendations.fertilizers) >= 1
        /\ FertilizerNames[Len(recommendations.fertilizers)] = "Vermicompost"
        /\ FertilizerTypes[Len(recommendations.fertilizers)] = "Organic Fertilizer"
        /\ (/\ Presented
            /\ lastFired.npkValues.nitrogen >= 50
            /\ lastFired.npkValues.phosphorus >= 40
            /\ lastFired.npkValues.potassium >= 45)
              => FertilizerNames = <<"Vermicompost">>

\* the organic entry closes a list in which a nutrient rule fired too
C4_Witness ==
    /\ Presented
    /\ variant = "soil-aware"
    /\ lastFired.npkValues.nitrogen >= 50
    /\ lastFired.npkValues.phosphorus < 40
    /\ FertilizerNames = <<"DAP (Di-Ammonium Phosphate)", "Vermicompost">>

ErrorToasts == SelectSeq(toasts, LAMBDA t : t.kind = "error")

TemperatureMissing == temperature = <<>> \/ temperature = <<"0">>

SoilTypeMissing == variant = "soil-aware" /\ soilType \notin SoilTypes

NpkMissing ==
    npkValues.nitrogen = 0 /\ npkValues.phosphorus = 0 /\ npkValues.potassium = 0

\* C5: a click reports at most one validation error, the first failing
\* check in the order temperature, soil type, NPK; a request without
\* temperature and with all-zero NPK reports only the temperature error.
C5_FirstErrorOnly ==
    lastOp = "generate" =>
        /\ Len(ErrorToasts) <= 1
        /\ TemperatureMissing => ErrorToasts = <<TemperatureError>>
        /\ (~TemperatureMissing /\ SoilTypeMissing) => ErrorToasts = <<SoilTypeError>>
        /\ (~TemperatureMissing /\ ~SoilTypeMissing /\ NpkMissing)
              => ErrorToasts = <<NpkError>>
        /\ (~TemperatureMissing /\ ~SoilTypeMissing /\ ~NpkMissing)
              => ErrorToasts = <<>>

\* all three checks fail and only the temperature error is reported
C5_Witness ==
    /\ lastOp = "generate"
    /\ variant = "soil-aware"
    /\ temperature = <<>>
    /\ soilType = ""
    /\ NpkMissing
    /\ toasts = <<TemperatureError>>

\* C6: a request whose temperature field is empty or holds zero, in any
\* spelling, is rejected with the missing-temperature error and nothing
\* is scheduled.
C6_ZeroTemperatureRejected ==
    (/\ lastOp = "generate"
     /\ \/ temperature = <<>>
        \/ (~parseFloat(temperature).nan /\ parseFloat(temperature).tenths = 0))
        => /\ toasts = <<TemperatureError>>
           /\ ~loading
           /\ timers = <<>>

\* C7: at most one evaluation is pending at any time.
C7_SingleFlight == Len(timers) <= 1

\* C8: a click that fails validation schedules nothing, leaves loading
\* false and leaves the presented recommendations as they were.
C8_RejectedRequestChangesNothing ==
    [][(/\ lastOp' = "generate"
        /\ (TemperatureMissing \/ SoilTypeMissing \/ NpkMissing))
          => /\ loading' = FALSE
             /\ UNCHANGED <<loading, timers, recommendations>>]_vars

\* a rejected click while an earlier result is on screen
C8_Witness ==
    /\ lastOp = "generate"
    /\ ErrorToasts # <<>>
    /\ recommendations # Null
    /\ ~loading
    /\ timers = <<>>

BlackSoilScenario ==
    /\ Presented
    /\ variant = "soil-aware"
    /\ lastFired.temperature = <<"2", "8">>
    /\ lastFired.soilType = "black"
    /\ lastFired.npkValues = [nitrogen |-> 45, phosphorus |-> 35, potassium |-> 50]

\* C9 as stated: Rice 95, Cotton 90, Wheat 85, in that order, each reason
\* mentioning black soil.
C9_AsStated ==
    BlackSoilScenario =>
        /\ CropNames = <<"Rice", "Cotton", "Wheat">>
        /\ CropScores = <<95, 90, 85>>
        /\ \A i \in DOMAIN recommendations.crops :
              Mentions(recommendations.crops[i].reason, "black")

\* C9: for temperature 28, black soil and npk {45, 35, 50} the crops are
\* Rice 95, Wheat 90 and Cotton 90, in that order (the tie in table
\* order), each reason mentioning black soil.
C9_BlackSoilScenario ==
    BlackSoilScenario =>
        /\ CropNames = <<"Rice", "Wheat", "Cotton">>
        /\ CropScores = <<95, 90, 90>>
        /\ \A i \in DOMAIN recommendations.crops :
              Mentions(recommendations.crops[i].reason, "black")

C9_Witness == BlackSoilScenario /\ Len(recommendations.crops) = 3

\* C10: whatever the NPK values, Groundnut (88) is suggested iff the soil
\* is sandy and 20 <= temperature <= 35, Millets (85) iff the soil is red
\* and 20 <= temperature <= 30; at 22 on sandy soil Groundnut comes with
\* Wheat and Potato.
C10_BonusRules ==
    (Presented /\ variant = "soil-aware") =>
        LET t == parseFloat(lastFired.temperature)
            Has(name, score) ==
                \E i \in DOMAIN recommendations.crops :
                    CropNames[i] = name /\ CropScores[i] = score
        IN  /\ ("Groundnut" \in Range(CropNames))
                  <=> (lastFired.soilType = "sandy" /\ ~t.nan
                       /\ 200 <= t.tenths /\ t.tenths <= 350)
            /\ ("Groundnut" \in Range(CropNames)) => Has("Groundnut", 88)
            /\ ("Millets" \in Range(CropNames))
                  <=> (lastFired.soilType = "red" /\ ~t.nan
                       /\ 200 <= t.tenths /\ t.tenths <= 300)
            /\ ("Millets" \in Range(CropNames)) => Has("Millets", 85)
            /\ (lastFired.temperature = <<"2", "2">> /\ lastFired.soilType = "sandy")
                  => Range(CropNames) = {"Groundnut", "Wheat", "Potato"}

\* the groundnut rule fires at 22 on sandy soil with every nutrient that
\* was entered below its threshold
C10_Witness ==
    /\ Presented
    /\ lastFired.temperature = <<"2", "2">>
    /\ lastFired.soilType = "sandy"
    /\ lastFired.npkValues = [nitrogen |-> 30, phosphorus |-> 0, potassium |-> -5]
    /\ "Groundnut" \in Range(CropNames)

\* ------------------------------------------ the repetition specification
\* one visit of the screen in which the user changes the temperature and
\* the soil type between requests
RepeatTemperatures == {NumToString(22), NumToString(MockTemperature)}
RepeatSoils == {"sandy", "black"}

\* the screen right after its mount effect
InitRepeat ==
    /\ variant \in Variants
    /\ currentScreen = "crop-recommendation"
    /\ user = UserData
    /\ temperature = NumToString(MockTemperature)
    /\ soilType = ""
    /\ npkValues = MockNpk
    /\ loading = FALSE
    /\ recommendations = Null
    /\ timers = <<>>
    /\ toasts = <<ConditionsLoaded>>
    /\ lastOp = "navigate"
    /\ lastFired = Null
    /\ firstEval = Null
    /\ ChatInit

NextRepeat ==
    \/ \E value \in RepeatTemperatures : SetTemperature(value)
    \/ \E value \in RepeatSoils : SetSoilType(value)
    \/ GenerateRecommendations
    \/ TimerFireRecorded

SpecRepeat == InitRepeat /\ [][NextRepeat]_vars

FiredTemp == parseFloat(lastFired.temperature)

\* C12: every request that passes validation, also with a temperature
\* outside every rule's range, is scheduled and its evaluation presents a
\* result: the crop list may be empty, the fertilizer list is produced.
C12_EvaluationTotal ==
    /\ (/\ lastOp = "generate"
        /\ ~TemperatureMissing /\ ~SoilTypeMissing /\ ~NpkMissing)
          => (loading /\ Len(timers) = 1 /\ ErrorToasts = <<>>)
    /\ Presented
          => /\ recommendations # Null
             /\ ~loading
             /\ toasts = <<Generated>>
             /\ Len(recommendations.fertilizers) >= 1
             /\ (FiredTemp.tenths < 150 \/ FiredTemp.tenths > 400)
                   => recommendations.crops = <<>>

\* temperature 200: no crop, the fertilizers of the prefilled NPK
C12_Witness ==
    /\ Presented
    /\ lastFired.temperature = <<"2", "0", "0">>
    /\ recommendations.crops = <<>>
    /\ FertilizerNames = <<"Urea", "DAP (Di-Ammonium Phosphate)", "Vermicompost">>

GeneralCrops == {"Rice", "Wheat", "Cotton", "Potato"}

\* the soils listed for a crop, with their scores
SoilScores ==
    [Rice   |-> [clayey |-> 95, black |-> 95, loamy |-> 90],
     Wheat  |-> [loamy |-> 90, black |-> 90, clayey |-> 85],
     Cotton |-> [black |-> 90, red |-> 90, loamy |-> 85],
     Potato |-> [loamy |-> 85, sandy |-> 85, red |-> 80]]

BaseScores == [Rice |-> 85, Wheat |-> 80, Cotton |-> 75, Potato |-> 70]

GenericReasons ==
    [Rice   |-> <<"Optimal temperature for rice cultivation">>,
     Wheat  |-> <<"Good temperature range for wheat">>,
     Cotton |-> <<"High potassium and warm temperature for cotton">>,
     Potato |-> <<"Cool temperature suitable for potato">>]

\* C13: a general rule that fires scores the soil-specific value when the
\* soil is listed for its crop (Rice: clayey/black 95, loamy 90; Wheat:
\* loamy/black 90, clayey 85; Cotton: black/red 90, loamy 85; Potato:
\* loamy/sandy 85, red 80), else the base score with the generic reason
\* (Rice 85, Wheat 80, Cotton 75, Potato 70).
C13_SoilSpecificScores ==
    (Presented /\ variant = "soil-aware") =>
        \A i \in DOMAIN recommendations.crops :
            LET c == recommendations.crops[i]
            IN  c.name \in GeneralCrops =>
                    IF lastFired.soilType \in DOMAIN SoilScores[c.name]
                    THEN /\ c.suitability = SoilScores[c.name][lastFired.soilType]
                         /\ c.reason # GenericReasons[c.name]
                    ELSE /\ c.suitability = BaseScores[c.name]
                         /\ c.reason = GenericReasons[c.name]

\* red soil at 25 with high potassium: Rice and Wheat at base, Cotton and
\* Potato soil-specific
C13_Witness ==
    /\ Presented
    /\ lastFired.soilType = "red"
    /\ CropNames = <<"Cotton", "Rice", "Millets", "Wheat", "Potato">>
    /\ CropScores = <<90, 85, 85, 80, 80>>

\* C14: with a temperature and a soil type, the request is rejected with
\* the missing-NPK error iff nitrogen, phosphorus and potassium are all
\* zero; otherwise it is accepted and an index that is zero counts as
\* below its fertilizer threshold.
C14_NpkAllZero ==
    /\ (lastOp = "generate" /\ ~TemperatureMissing /\ ~SoilTypeMissing)
          => /\ (ErrorToasts = <<NpkError>>) <=> NpkMissing
             /\ ~NpkMissing => (ErrorToasts = <<>> /\ loading /\ Len(timers) = 1)
    /\ Presented
          => /\ lastFired.npkValues.nitrogen = 0 => "Urea" \in Range(FertilizerNames)
             /\ lastFired.npkValues.phosphorus = 0
                   => "DAP (Di-Ammonium Phosphate)" \in Range(FertilizerNames)
             /\ lastFired.npkValues.potassium = 0
                   => "Muriate of Potash" \in Range(FertilizerNames)

\* two indices zero, one entered
C14_Witness ==
    /\ Presented
    /\ lastFired.npkValues = [nitrogen |-> 0, phosphorus |-> 0, potassium |-> 50]
    /\ FertilizerNames = <<"Urea", "DAP (Di-Ammonium Phosphate)", "Vermicompost">>

\* C15: in the soil-aware component the soil type is unset or one of
\* loamy, clayey, black, sandy, red in every state, every evaluation that
\* is scheduled or run has a soil type of that set, and a request without
\* one is rejected with the missing-soil-type error.
C15_SoilTypeClosed ==
    variant = "soil-aware" =>
        /\ soilType \in SoilTypes \cup {""}
        /\ \A i \in DOMAIN timers : timers[i].soilType \in SoilTypes
        /\ lastOp = "timer" => lastFired.soilType \in SoilTypes
        /\ (lastOp = "generate" /\ ~TemperatureMissing /\ soilType \notin SoilTypes)
              => (ErrorToasts = <<SoilTypeError>> /\ ~loading)

\* the prefilled screen, submitted before a soil type is picked
C15_Witness ==
    /\ variant = "soil-aware"
    /\ lastOp = "generate"
    /\ temperature = NumToString(MockTemperature)
    /\ npkValues = MockNpk
    /\ soilType = ""
    /\ toasts = <<SoilTypeError>>
    /\ timers = <<>>

\* C16: a crop is suggested iff its own rule's test holds on the input,
\* whatever other rules fired: Rice iff 25 <= t <= 35, Wheat iff
\* 20 <= t <= 30, Cotton iff 25 <= t <= 40 and potassium > 40, Potato iff
\* 15 <= t <= 25; at t = 25 with potassium > 40 all four appear.
C16_RulesIndependent ==
    Presented =>
        LET t == FiredTemp.tenths
            k == lastFired.npkValues.potassium
        IN  /\ ("Rice" \in Range(CropNames)) <=> (250 <= t /\ t <= 350)
            /\ ("Wheat" \in Range(CropNames)) <=> (200 <= t /\ t <= 300)
            /\ ("Cotton" \in Range(CropNames)) <=> (250 <= t /\ t <= 400 /\ k > 40)
            /\ ("Potato" \in Range(CropNames)) <=> (150 <= t /\ t <= 250)
            /\ (t = 250 /\ k > 40) => GeneralCrops \subseteq Range(CropNames)

\* the four general rules fire together in the simple component
C16_Witness ==
    /\ Presented
    /\ variant = "simple"
    /\ lastFired.temperature = <<"2", "5">>
    /\ CropNames = <<"Rice", "Wheat", "Cotton", "Potato">>

\* C17: in every result each crop name appears at most once.
C17_CropNamesDistinct ==
    recommendations # Null =>
        \A i, j \in DOMAIN recommendations.crops :
            CropNames[i] = CropNames[j] => i = j

\* the largest result: five rules fire, five names
C17_Witness ==
    /\ Presented
    /\ lastFired.soilType = "sandy"
    /\ Len(recommendations.crops) = 5
    /\ Cardinality(Range(CropNames)) = 5

\* C18: every suitability score of every result, in both components, is
\* an integer between 0 and 100.
C18_ScoresInRange ==
    recommendations # Null =>
        \A i \in DOMAIN recommendations.crops : CropScores[i] \in 0..100

\* the highest score of each component is presented
C18_Witness ==
    /\ Presented
    /\ Len(recommendations.crops) >= 1
    /\ CropScores[1] = 95
    /\ \/ variant = "simple"
       \/ lastFired.soilType = "clayey"

\* C19: the fertilizer list of an evaluation is the one the same NPK
\* values give with any other temperature and soil type (here: with the
\* prefilled temperature on loamy soil), so any two inputs with the same
\* NPK have identical fertilizer lists.
C19_FertilizersDependOnNpkOnly ==
    Presented =>
        recommendations.fertilizers =
            TimerResult([temperature |-> NumToString(MockTemperature),
                         soilType |-> "loamy",
                         npkValues |-> lastFired.npkValues,
                         mounted |-> TRUE]).fertilizers

\* an input that differs from the reference in temperature, soil type and
\* suggested crops
C19_Witness ==
    /\ Presented
    /\ lastFired.temperature = <<"4", "1">>
    /\ lastFired.soilType = "sandy"
    /\ lastFired.npkValues = MockNpk
    /\ recommendations.crops = <<>>
    /\ Len(recommendations.fertilizers) = 3

\* C20: every entry to the recommendation screen starts without a result
\* and without an evaluation in progress, and a result appears or changes
\* only when the callback of a request accepted during the current visit
\* (loading is set) fires; a request of an earlier visit never populates
\* the screen.
C20_ResultsDoNotSurviveLeaving ==
    [][/\ (lastOp' = "navigate" /\ currentScreen' = "crop-recommendation")
             => (recommendations' = Null /\ ~loading')
       /\ (recommendations' # Null /\ recommendations' # recommendations)
             => (Mounted /\ loading /\ lastOp' = "timer")
       /\ (lastOp' = "back") => (recommendations' = Null /\ ~loading')]_vars

\* the callback of a request of an earlier visit has fired on the
\* re-entered screen and nothing is presented
C20_Witness ==
    /\ Mounted
    /\ lastOp = "timer"
    /\ ~lastFired.mounted
    /\ recommendations = Null
    /\ ~loading
    /\ timers = <<>>

NamesOf(crops) == {crops[i].name : i \in DOMAIN crops}

SoilOnlyCrops == {"Groundnut", "Millets"}

\* C21: for the same accepted temperature and NPK and every soil type,
\* every crop name the simple component suggests is suggested by the
\* soil-aware component, and the only names the soil-aware component adds
\* are Groundnut and Millets.
C21_SoilAwareIsSuperset ==
    Presented =>
        IF variant = "soil-aware"
        THEN LET simple == NamesOf(EvaluateSimple(lastFired.temperature,
                                                  lastFired.npkValues).crops)
             IN  /\ simple \subseteq Range(CropNames)
                 /\ Range(CropNames) \ simple \subseteq SoilOnlyCrops
        ELSE \A soil \in SoilTypes :
                LET aware == NamesOf(Evaluate(lastFired.temperature, soil,
                                              lastFired.npkValues).crops)
                IN  /\ Range(CropNames) \subseteq aware
                    /\ aware \ Range(CropNames) \subseteq SoilOnlyCrops

\* sandy soil at 25 with high potassium: the four crops of the simple
\* component and Groundnut
C21_Witness ==
    /\ Presented
    /\ variant = "soil-aware"
    /\ lastFired.soilType = "sandy"
    /\ lastFired.temperature = <<"2", "5">>
    /\ Range(CropNames) = GeneralCrops \cup {"Groundnut"}
    /\ NamesOf(EvaluateSimple(lastFired.temperature, lastFired.npkValues).crops)
          = GeneralCrops

\* C22: the temperature ranges include both ends and the potassium test
\* of Cotton is strict: 15 and 25 give Potato, 20 and 30 Wheat, 25 and 35
\* Rice, 25 and 40 Cotton when potassium > 40; potassium 40 never gives
\* Cotton; 14 gives no Potato, 36 no Rice, 41 no Cotton, and neither do
\* the fractions just outside a range.
C22_InclusiveBounds ==
    Presented =>
        LET t     == FiredTemp.tenths
            k     == lastFired.npkValues.potassium
            names == Range(CropNames)
        IN  /\ t \in {150, 250} => "Potato" \in names
            /\ t \in {200, 300} => "Wheat" \in names
            /\ t \in {250, 350} => "Rice" \in names
            /\ (t \in {250, 400} /\ k > 40) => "Cotton" \in names
            /\ k = 40 => "Cotton" \notin names
            /\ t \in {140, 149} => "Potato" \notin names
            /\ t \in {351, 360} => "Rice" \notin names
            /\ t = 410 => "Cotton" \notin names

\* the upper end of the cotton range with potassium just over the threshold
C22_Witness ==
    /\ Presented
    /\ lastFired.temperature = <<"4", "0">>
    /\ lastFired.npkValues.potassium = 41
    /\ CropNames = <<"Cotton">>

\* C23: the crop list of an evaluation is empty exactly when the
\* temperature is below 15, or above 40, or above 35 and at most 40 with
\* potassium at most 40, for every soil type, nitrogen and phosphorus and
\* in both components.
C23_EmptyCropList ==
    Presented =>
        LET t == FiredTemp.tenths
            k == lastFired.npkValues.potassium
        IN  (recommendations.crops = <<>>)
                <=> \/ t < 150
                    \/ t > 400
                    \/ (t > 350 /\ t <= 400 /\ k <= 40)

\* sandy soil just over 35 with potassium 40: no rule fires
C23_Witness ==
    /\ Presented
    /\ lastFired.soilType = "sandy"
    /\ lastFired.temperature = <<"3", "5", ".", "1">>
    /\ lastFired.npkValues.potassium = 40
    /\ lastFired.npkValues.nitrogen = 50
    /\ recommendations.crops = <<>>

\* ------------------------------------------------ the fair specification
\* visits of the recommendation screen in which the user edits the fields
\* while an evaluation is pending, leaves and comes back; a scheduled
\* timeout callback is eventually run by the event loop
PendingNpkEdits == {NumToString(30)}

NextFair ==
    \/ \E value \in RepeatTemperatures : SetTemperature(value)
    \/ \E value \in RepeatSoils : SetSoilType(value)
    \/ \E value \in PendingNpkEdits : SetPotassium(value)
    \/ GenerateRecommendations
    \/ TimerFire
    \/ OnBack
    \/ OnNavigate("crop-recommendation")

\* setTimeout(callback, 2000): the head of the timeout queue is due and is
\* taken off it; under NextFair the steps that do so are the TimerFire
\* steps, and one is possible exactly when a timeout is pending
TimerDue ==
    /\ timers # <<>>
    /\ timers' = Tail(timers)

SpecFair == InitRepeat /\ [][NextFair]_vars /\ WF_timers(TimerDue)

\* C24: a request that passes validation sets loading, and an evaluation
\* in progress leads, unless the screen is left, to a result presented
\* with loading false; loading does not stay true forever.
C24_AcceptedRequestCompletes ==
    /\ []((lastOp = "generate" /\ ErrorToasts = <<>>) => (loading /\ timers # <<>>))
    /\ loading ~> (~Mounted \/ (Presented /\ recommendations # Null /\ ~loading))
    /\ loading ~> ~loading

\* a request of the visit has completed and the button is enabled again
C24_Witness ==
    /\ Mounted
    /\ Presented
    /\ recommendations # Null
    /\ ~loading
    /\ timers = <<>>
    /\ Len(recommendations.crops) = 3

EditOps == {"setTemperature", "setSoilType", "setNitrogen", "setPhosphorus",
            "setPotassium"}

\* what the component computes from a temperature, a soil type and NPK
\* values
ResultFor(temperatureText, soil, npk) ==
    IF variant = "soil-aware" THEN Evaluate(temperatureText, soil, npk)
    ELSE EvaluateSimple(temperatureText, npk)

\* C25: an accepted request captures the temperature, soil type and NPK
\* values of that moment, an edit of a field leaves every pending
\* evaluation as it is, and the callback of the mounted component
\* presents the result of the captured values, whatever the fields hold
\* when it runs.
C25_ResultFromCapturedInputs ==
    [][/\ (lastOp' = "generate" /\ timers' # timers)
             => /\ Len(timers') = Len(timers) + 1
                /\ SubSeq(timers', 1, Len(timers)) = timers
                /\ timers'[Len(timers')].temperature = temperature
                /\ timers'[Len(timers')].soilType = soilType
                /\ timers'[Len(timers')].npkValues = npkValues
       /\ (lastOp' \in EditOps) => (timers' = timers /\ recommendations' = recommendations)
       /\ (lastOp' = "timer" /\ Head(timers).mounted)
             => recommendations' = ResultFor(Head(timers).temperature,
                                             Head(timers).soilType,
                                             Head(timers).npkValues)]_vars

\* the fields were edited while the evaluation was pending: what is
\* presented is not what the displayed inputs give
C25_Witness ==
    /\ Presented
    /\ Mounted
    /\ lastFired.temperature = NumToString(MockTemperature)
    /\ temperature = NumToString(22)
    /\ lastFired.npkValues = MockNpk
    /\ npkValues.potassium = 30
    /\ recommendations = ResultFor(lastFired.temperature, lastFired.soilType,
                                   lastFired.npkValues)
    /\ recommendations # ResultFor(temperature, soilType, npkValues)

\* C26: the crop list of an evaluation is the one the same temperature
\* and soil type give with any nitrogen and phosphorus and any potassium
\* on the same side of 40 (here: nitrogen 1, phosphorus 1 and potassium 41
\* or 40), so two inputs that agree on temperature, soil type and the
\* side of 40 have identical crop lists.
C26_CropsIgnoreNitrogenPhosphorus ==
    Presented =>
        recommendations.crops =
            ResultFor(lastFired.temperature, lastFired.soilType,
                      [nitrogen |-> 1, phosphorus |-> 1,
                       potassium |-> IF lastFired.npkValues.potassium > 40
                                     THEN 41 ELSE 40]).crops

\* potassium 40 above the phosphorus entered, nitrogen at its threshold:
\* no Cotton, as with the reference values
C26_Witness ==
    /\ Presented
    /\ lastFired.temperature = <<"2", "8">>
    /\ lastFired.soilType = "black"
    /\ lastFired.npkValues = [nitrogen |-> 50, phosphorus |-> 25, potassium |-> 40]
    /\ CropNames = <<"Rice", "Wheat">>

\* C27: for every accepted NPK, temperature and soil type the fertilizer
\* list of an evaluation is, entry by entry, the one the other component
\* computes from the same NPK.
C27_SameFertilizersInBothVariants ==
    Presented =>
        LET npk == lastFired.npkValues
        IN  /\ variant = "soil-aware"
                  => recommendations.fertilizers =
                        EvaluateSimple(lastFired.temperature, npk).fertilizers
            /\ variant = "simple"
                  => \A soil \in SoilTypes :
                        recommendations.fertilizers =
                            Evaluate(lastFired.temperature, soil, npk).fertilizers

\* all four fertilizer rules fire in the soil-aware component
C27_Witness ==
    /\ Presented
    /\ variant = "soil-aware"
    /\ lastFired.soilType = "red"
    /\ lastFired.npkValues = [nitrogen |-> 30, phosphorus |-> 25, potassium |-> 20]
    /\ FertilizerNames = FertilizerTable
    /\ recommendations.fertilizers
          = EvaluateSimple(lastFired.temperature, lastFired.npkValues).fertilizers

Last(s) == s[Len(s)]

\* C28: entering the recommendation screen leaves temperature 28, NPK
\* {45, 35, 50} and no soil type in the fields; a request made right then
\* is rejected with the missing-soil-type error by the soil-aware
\* component and accepted by the simple one, whose evaluation of these
\* values presents Rice 95, Wheat 88, Cotton 82 and Urea, DAP,
\* Vermicompost.
C28_PrefilledRequest ==
    [][/\ (lastOp' = "navigate" /\ currentScreen' = "crop-recommendation")
             => /\ temperature' = <<"2", "8">>
                /\ npkValues' = [nitrogen |-> 45, phosphorus |-> 35, potassium |-> 50]
                /\ soilType' = ""
       /\ (lastOp = "navigate" /\ Mounted /\ lastOp' = "generate")
             => IF variant = "soil-aware"
                THEN /\ toasts' = <<SoilTypeError>>
                     /\ ~loading'
                     /\ timers' = timers
                     /\ recommendations' = Null
                ELSE /\ toasts' = <<>>
                     /\ loading'
                     /\ Last(timers').temperature = <<"2", "8">>
                     /\ Last(timers').npkValues
                            = [nitrogen |-> 45, phosphorus |-> 35, potassium |-> 50]
       /\ (/\ variant = "simple"
           /\ lastOp' = "timer"
           /\ Head(timers).mounted
           /\ Head(timers).temperature = <<"2", "8">>
           /\ Head(timers).npkValues = [nitrogen |-> 45, phosphorus |-> 35, potassium |-> 50])
             => /\ [i \in DOMAIN recommendations'.crops |->
                        <<recommendations'.crops[i].name,
                          recommendations'.crops[i].suitability>>]
                      = << <<"Rice", 95>>, <<"Wheat", 88>>, <<"Cotton", 82>> >>
                /\ [i \in DOMAIN recommendations'.fertilizers |->
                        recommendations'.fertilizers[i].name]
                      = <<"Urea", "DAP (Di-Ammonium Phosphate)", "Vermicompost">>]_vars

\* the simple component has presented the result of the prefilled values
\* while they are still in the fields
C28_Witness ==
    /\ variant = "simple"
    /\ Presented
    /\ temperature = <<"2", "8">>
    /\ npkValues = MockNpk
    /\ lastFired.temperature = <<"2", "8">>
    /\ lastFired.npkValues = MockNpk
    /\ CropNames = <<"Rice", "Wheat", "Cotton">>
    /\ CropScores = <<95, 88, 82>>
    /\ FertilizerNames = <<"Urea", "DAP (Di-Ammonium Phosphate)", "Vermicompost">>

\* ----------------------------------------------- the router specification
\* the App screen router with the AuthScreen handlers in front of it; the
\* fields of the login and registration forms are the handlers' inputs
PhoneInputs == {<<>>,
                <<"9", "8", "7", "6", "5", "4", "3", "2", "1">>,
                <<"9", "8", "7", "6", "5", "4", "3", "2", "1", "0">>}

PasswordInputs == {<<>>, <<"a", "b", "c", "d", "e">>, <<"a", "b", "c", "d", "e", "f">>}

SecurityAnswers == {<<>>, <<"R", "e", "x">>}

Languages == {"English", "Hindi"}

PhoneError         == [kind |-> "error", message |-> "Please enter a valid 10-digit phone number"]
PasswordError      == [kind |-> "error", message |-> "Please enter your password"]
ShortPasswordError == [kind |-> "error", message |-> "Password must be at least 6 characters"]
MismatchError      == [kind |-> "error", message |-> "Passwords do not match"]
SecurityError      == [kind |-> "error", message |-> "Please answer the security question"]

WelcomeBack(language) ==
    [kind |-> "success", message |-> <<"Welcome back! Logging in with ", language>>]

AccountCreated(language) ==
    [kind |-> "success",
     message |-> <<"Account created successfully! Welcome to AgroSmart in ", language>>]

\* userData of handleLogin and handleRegister
UserDataOf(phone, granted, language) ==
    [phoneNumber |-> phone,
     location |-> IF granted THEN "GPS Auto-detected" ELSE "Location not available",
     language |-> language]

\* the early returns of handleLogin
LoginErrors(phone, password) ==
    IF phone = <<>> \/ Len(phone) # 10 THEN <<PhoneError>>
    ELSE IF password = <<>> THEN <<PasswordError>>
    ELSE <<>>

\* the early returns of handleRegister
RegisterErrors(phone, password, confirm, answer) ==
    IF phone = <<>> \/ Len(phone) # 10 THEN <<PhoneError>>
    ELSE IF password = <<>> \/ Len(password) < 6 THEN <<ShortPasswordError>>
    ELSE IF password # confirm THEN <<MismatchError>>
    ELSE IF answer = <<>> THEN <<SecurityError>>
    ELSE <<>>

\* mutant: the screen is switched before the form is checked
HandleLogin_NavigatesFirst(phone, password, granted, language) ==
    /\ currentScreen = "auth"
    /\ currentScreen' = "home"
    /\ IF LoginErrors(phone, password) # <<>>
       THEN /\ toasts' = LoginErrors(phone, password)
            /\ UNCHANGED user
       ELSE /\ toasts' = <<WelcomeBack(language)>>
            /\ user' = UserDataOf(phone, granted, language)
    /\ lastOp' = "login"
    /\ lastFired' = Null
    /\ UNCHANGED <<variant, temperature, soilType, npkValues, loading,
                   recommendations, timers, firstEval, chatVars>>

\* click on Login: handleLogin, then onLogin of App (setUser,
\* setCurrentScreen("home"))
HandleLogin(phone, password, granted, language) ==
    /\ currentScreen = "auth"
    /\ IF LoginErrors(phone, password) # <<>>
       THEN /\ toasts' = LoginErrors(phone, password)
            /\ UNCHANGED <<user, currentScreen>>
       ELSE /\ toasts' = <<WelcomeBack(language)>>
            /\ user' = UserDataOf(phone, granted, language)
            /\ currentScreen' = "home"
    /\ lastOp' = "login"
    /\ lastFired' = Null
    /\ UNCHANGED <<variant, temperature, soilType, npkValues, loading,
                   recommendations, timers, firstEval, chatVars>>

\* click on Create Account: handleRegister, then onLogin of App
HandleRegister(phone, password, confirm, answer, granted, language) ==
    /\ currentScreen = "auth"
    /\ IF RegisterErrors(phone, password, confirm, answer) # <<>>
       THEN /\ toasts' = RegisterErrors(phone, password, confirm, answer)
            /\ UNCHANGED <<user, currentScreen>>
       ELSE /\ toasts' = <<AccountCreated(language)>>
            /\ user' = UserDataOf(phone, granted, language)
            /\ currentScreen' = "home"
    /\ lastOp' = "register"
    /\ lastFired' = Null
    /\ UNCHANGED <<variant, temperature, soilType, npkValues, loading,
                   recommendations, timers, firstEval, chatVars>>

NextRouter ==
    \/ \E phone \in PhoneInputs, password \in PasswordInputs,
          granted \in BOOLEAN, language \in Languages :
            HandleLogin(phone, password, granted, language)
    \/ \E phone \in PhoneInputs, password \in PasswordInputs,
          confirm \in PasswordInputs, answer \in SecurityAnswers,
          granted \in BOOLEAN, language \in Languages :
            HandleRegister(phone, password, confirm, answer, granted, language)
    \/ \E screen \in DetailScreens : OnNavigate(screen)
    \/ OnBack
    \/ GenerateRecommendations
    \/ TimerFire

SpecRouter == Init /\ [][NextRouter]_vars

\* C29: the screen is other than "auth" only with a user set; it leaves
\* "auth" only by a login or registration that passed its checks, to
\* "home"; the back action of every detail screen leads to "home"; "auth"
\* is never entered again.
C29_RouterSafety ==
    /\ [](currentScreen # "auth" => user # Null)
    /\ [][/\ (currentScreen = "auth" /\ currentScreen' # "auth")
                => /\ lastOp' \in {"login", "register"}
                   /\ Len(toasts') = 1
                   /\ toasts'[1].kind = "success"
                   /\ user' # Null
                   /\ Len(user'.phoneNumber) = 10
                   /\ currentScreen' = "home"
          /\ (lastOp' \in {"login", "register"} /\ Len(toasts') = 1
                 /\ toasts'[1].kind = "error")
                => (currentScreen' = "auth" /\ user' = Null)
          /\ (currentScreen \in DetailScreens /\ lastOp' = "back")
                => currentScreen' = "home"
          /\ (currentScreen # "auth") => (currentScreen' # "auth" /\ user' = user)]_vars

\* back on the home page from the chat screen after a registration
C29_Witness ==
    /\ currentScreen = "home"
    /\ lastOp = "back"
    /\ user # Null
    /\ user.language = "Hindi"
    /\ user.location = "Location not available"
    /\ Len(user.phoneNumber) = 10

\* ------------------------------------------------------------ the ChatBot
\* user messages of one visit of the chat screen, and reply timeouts
\* pending at once
MaxSends == 2

UpperChars == <<"A", "B", "C", "D", "E", "F", "G", "H", "I", "J", "K", "L", "M",
                "N", "O", "P", "Q", "R", "S", "T", "U", "V", "W", "X", "Y", "Z">>

LowerChars == <<"a", "b", "c", "d", "e", "f", "g", "h", "i", "j", "k", "l", "m",
                "n", "o", "p", "q", "r", "s", "t", "u", "v", "w", "x", "y", "z">>

\* String.prototype.toLowerCase
toLowerCase(s) ==
    [i \in DOMAIN s |->
        IF \E j \in DOMAIN UpperChars : UpperChars[j] = s[i]
        THEN LowerChars[CHOOSE j \in DOMAIN UpperChars : UpperChars[j] = s[i]]
        ELSE s[i]]

\* String.prototype.includes
includes(s, sub) ==
    \E i \in 0..(Len(s) - Len(sub)) : SubSeq(s, i + 1, i + Len(sub)) = sub

\* String.prototype.trim, for strings whose white space is the blank
RECURSIVE TrimStart(_)
TrimStart(s) == IF s # <<>> /\ Head(s) = " " THEN TrimStart(Tail(s)) ELSE s

RECURSIVE TrimEnd(_)
TrimEnd(s) ==
    IF s # <<>> /\ s[Len(s)] = " " THEN TrimEnd(SubSeq(s, 1, Len(s) - 1)) ELSE s

trim(s) == TrimEnd(TrimStart(s))

\* the number of entries of predefinedResponses, by category
predefinedResponses ==
    [greeting |-> 3, weather |-> 2, crops |-> 2, pests |-> 2, market |-> 2,
     fertilizer |-> 2, irrigation |-> 2, default |-> 3]

\* the keywords of getAIResponse
GreetingWords ==
    {<<"h", "e", "l", "l", "o">>,
     <<"h", "i">>,
     <<"h", "e", "y">>}

WeatherWords ==
    {<<"w", "e", "a", "t", "h", "e", "r">>,
     <<"r", "a", "i", "n">>,
     <<"t", "e", "m", "p", "e", "r", "a", "t", "u", "r", "e">>}

CropWords ==
    {<<"c", "r", "o", "p">>,
     <<"p", "l", "a", "n", "t">>,
     <<"g", "r", "o", "w">>}

PestWords ==
    {<<"p", "e", "s", "t">>,
     <<"d", "i", "s", "e", "a", "s", "e">>,
     <<"i", "n", "s", "e", "c", "t">>,
     <<"b", "u", "g">>}

MarketWords ==
    {<<"m", "a", "r", "k", "e", "t">>,
     <<"p", "r", "i", "c", "e">>,
     <<"s", "e", "l", "l">>}

FertilizerWords ==
    {<<"f", "e", "r", "t", "i", "l", "i", "z", "e", "r">>,
     <<"n", "u", "t", "r", "i", "e", "n", "t">>,
     <<"n", "p", "k">>}

IrrigationWords ==
    {<<"w", "a", "t", "e", "r">>,
     <<"i", "r", "r", "i", "g", "a", "t", "i", "o", "n">>,
     <<"d", "r", "o", "u", "g", "h", "t">>}

IncludesAny(input, words) == \E w \in words : includes(input, w)

\* the category getAIResponse answers from: the first keyword test that
\* holds on the lower-cased input
ResponseCategory(userInput) ==
    LET input == toLowerCase(userInput)
    IN  IF IncludesAny(input, GreetingWords) THEN "greeting"
        ELSE IF IncludesAny(input, WeatherWords) THEN "weather"
        ELSE IF IncludesAny(input, CropWords) THEN "crops"
        ELSE IF IncludesAny(input, PestWords) THEN "pests"
        ELSE IF IncludesAny(input, MarketWords) THEN "market"
        ELSE IF IncludesAny(input, FertilizerWords) THEN "fertilizer"
        ELSE IF IncludesAny(input, IrrigationWords) THEN "irrigation"
        ELSE "default"

\* getAIResponse: the entries Math.random can pick for the input
getAIResponse(userInput) ==
    LET category == ResponseCategory(userInput)
    IN  {[category |-> category, entry |-> n] :
            n \in 0..(predefinedResponses[category] - 1)}

\* the texts of the quick-question buttons
QuickQuestions ==
    {<<"W", "h", "a", "t", " ", "c", "r", "o", "p", "s", " ", "a", "r",
       "e", " ", "b", "e", "s", "t", " ", "f", "o", "r", " ", "m",
       "y", " ", "a", "r", "e", "a", "?">>,
     <<"H", "o", "w", " ", "t", "o", " ", "p", "r", "e", "v", "e", "n",
       "t", " ", "p", "e", "s", "t", " ", "a", "t", "t", "a", "c",
       "k", "s", "?">>,
     <<"C", "u", "r", "r", "e", "n", "t", " ", "m", "a", "r", "k", "e",
       "t", " ", "p", "r", "i", "c", "e", "s", "?">>,
     <<"W", "e", "a", "t", "h", "e", "r", " ", "f", "o", "r", "e", "c",
       "a", "s", "t", "?">>}

\* the quick question the user asks in the chat specification
AskedQuestions ==
    {<<"W", "e", "a", "t", "h", "e", "r", " ", "f", "o", "r", "e", "c", "a", "s", "t", "?">>}

\* what the user types in the input field
TypedTexts == {<<>>, <<" ">>, <<" ", "h", "i", " ">>}

ChatMounted == currentScreen = "chat"

UserMessages == {i \in DOMAIN messages : messages[i].sender = "user"}

BotMessages == {i \in DOMAIN messages : messages[i].sender = "bot"}

\* the reply timeouts of the mounted component
PendingReplies == {i \in DOMAIN replyTimers : replyTimers[i].mounted}

RemoveAt(s, i) == SubSeq(s, 1, i - 1) \o SubSeq(s, i + 1, Len(s))

\* onChange of the input field
SetInputText(value) ==
    /\ ChatMounted
    /\ inputText' = value
    /\ toasts' = <<>>
    /\ lastOp' = "setInputText"
    /\ lastFired' = Null
    /\ UNCHANGED <<variant, currentScreen, user, temperature, soilType, npkValues,
                   loading, recommendations, timers, firstEval,
                   messages, isTyping, replyTimers>>

\* mutant: no reply is scheduled while one is being typed
sendMessage_DropsWhileTyping(text) ==
    IF trim(text) = <<>>
    THEN UNCHANGED chatVars
    ELSE /\ Cardinality(UserMessages) < MaxSends
         /\ Len(replyTimers) < MaxSends
         /\ messages' = Append(messages, [sender |-> "user", text |-> trim(text)])
         /\ inputText' = <<>>
         /\ isTyping' = TRUE
         /\ replyTimers' = IF isTyping THEN replyTimers
                           ELSE Append(replyTimers, [text |-> text, mounted |-> TRUE])

\* sendMessage(text): the early return on a blank text, or the user
\* message appended, the input cleared, isTyping set and the reply
\* scheduled
sendMessage(text) ==
    IF trim(text) = <<>>
    THEN UNCHANGED chatVars
    ELSE /\ Cardinality(UserMessages) < MaxSends
         /\ Len(replyTimers) < MaxSends
         /\ messages' = Append(messages, [sender |-> "user", text |-> trim(text)])
         /\ inputText' = <<>>
         /\ isTyping' = TRUE
         /\ replyTimers' = Append(replyTimers, [text |-> text, mounted |-> TRUE])

\* click on the send button (disabled on a blank input and while typing)
ClickSend ==
    /\ ChatMounted
    /\ trim(inputText) # <<>>
    /\ ~isTyping
    /\ sendMessage(inputText)
    /\ toasts' = <<>>
    /\ lastOp' = "send"
    /\ lastFired' = Null
    /\ UNCHANGED <<variant, currentScreen, user, temperature, soilType, npkValues,
                   loading, recommendations, timers, firstEval>>

\* onKeyPress of the input field with the Enter key
PressEnter ==
    /\ ChatMounted
    /\ sendMessage(inputText)
    /\ toasts' = <<>>
    /\ lastOp' = "enter"
    /\ lastFired' = Null
    /\ UNCHANGED <<variant, currentScreen, user, temperature, soilType, npkValues,
                   loading, recommendations, timers, firstEval>>

\* click on a quick-question button
ClickQuickQuestion(question) ==
    /\ ChatMounted
    /\ sendMessage(question)
    /\ toasts' = <<>>
    /\ lastOp' = "quick"
    /\ lastFired' = Null
    /\ UNCHANGED <<variant, currentScreen, user, temperature, soilType, npkValues,
                   loading, recommendations, timers, firstEval>>

\* a reply timeout fires (the delays are random, so in any order): the bot
\* message is appended and isTyping reset
ReplyFire(i, response) ==
    /\ i \in DOMAIN replyTimers
    /\ response \in getAIResponse(replyTimers[i].text)
    /\ IF replyTimers[i].mounted
       THEN /\ messages' = Append(messages, [sender |-> "bot", text |-> response])
            /\ isTyping' = FALSE
       ELSE UNCHANGED <<messages, isTyping>>
    /\ replyTimers' = RemoveAt(replyTimers, i)
    /\ toasts' = <<>>
    /\ lastOp' = "reply"
    /\ lastFired' = Null
    /\ UNCHANGED <<variant, currentScreen, user, temperature, soilType, npkValues,
                   loading, recommendations, timers, firstEval, inputText>>

\* ------------------------------------------------- the chat specification
\* the home page after a login
InitChat ==
    /\ variant = "soil-aware"
    /\ currentScreen = "home"
    /\ user = UserData
    /\ temperature = <<>>
    /\ soilType = ""
    /\ npkValues = InitialNpk
    /\ loading = FALSE
    /\ recommendations = Null
    /\ timers = <<>>
    /\ toasts = <<>>
    /\ lastOp = "login"
    /\ lastFired = Null
    /\ firstEval = Null
    /\ ChatInit

NextChat ==
    \/ OnNavigate("chat")
    \/ OnBack
    \/ \E value \in TypedTexts : SetInputText(value)
    \/ ClickSend
    \/ PressEnter
    \/ \E question \in AskedQuestions : ClickQuickQuestion(question)
    \/ \E i \in DOMAIN replyTimers :
          \E response \in getAIResponse(replyTimers[i].text) : ReplyFire(i, response)

\* setTimeout(callback, 1000 + Math.random() * 2000): a pending reply
\* timeout is due and is taken off the queue; under NextChat the steps
\* that do so are the ReplyFire steps
ReplyDue ==
    \E i \in DOMAIN replyTimers : replyTimers' = RemoveAt(replyTimers, i)

SpecChat == InitChat /\ [][NextChat]_vars /\ WF_replyTimers(ReplyDue)

SendOps == {"send", "enter", "quick"}

\* C30: a non-blank text sent by the send button, the Enter key or a
\* quick-question button, also while a reply is pending, appends one user
\* message (the trimmed text) and schedules one reply; a blank text
\* changes nothing; replies are appended one per timeout, so the bot
\* messages and the pending replies together are the user messages plus
\* the welcome message; and pending replies lead, unless the chat is
\* left, to a list in which the bot messages are the user messages plus
\* one.
C30_EveryMessageAnswered ==
    /\ [][/\ (lastOp' \in SendOps /\ messages' # messages)
                => /\ messages' = Append(messages, messages'[Len(messages')])
                   /\ messages'[Len(messages')].sender = "user"
                   /\ messages'[Len(messages')].text # <<>>
                   /\ lastOp' # "quick"
                         => messages'[Len(messages')].text = trim(inputText)
                   /\ lastOp' = "quick"
                         => messages'[Len(messages')].text \in QuickQuestions
                   /\ Len(replyTimers') = Len(replyTimers) + 1
                   /\ replyTimers'[Len(replyTimers')].mounted
                   /\ SubSeq(replyTimers', 1, Len(replyTimers)) = replyTimers
          /\ (lastOp' \in {"send", "enter"} /\ trim(inputText) = <<>>)
                => UNCHANGED chatVars
          /\ (lastOp' = "reply")
                => /\ Len(replyTimers') = Len(replyTimers) - 1
                   /\ \/ messages' = messages
                      \/ /\ messages' = Append(messages, messages'[Len(messages')])
                         /\ messages'[Len(messages')].sender = "bot"]_vars
    /\ [](ChatMounted =>
             Cardinality(BotMessages) + Cardinality(PendingReplies)
                = Cardinality(UserMessages) + 1)
    /\ (ChatMounted /\ PendingReplies # {})
          ~> \/ ~ChatMounted
             \/ /\ PendingReplies = {}
                /\ Cardinality(BotMessages) = Cardinality(UserMessages) + 1

\* two messages were sent before the first reply, the second by the Enter
\* key while the bot was typing, and both replies have arrived
C30_Witness ==
    /\ ChatMounted
    /\ replyTimers = <<>>
    /\ Len(messages) = 5
    /\ messages[2].sender = "user"
    /\ messages[3].sender = "user"
    /\ messages[3].text = <<"h", "i">>
    /\ messages[4].sender = "bot"
    /\ messages[4].text.category = "greeting"
    /\ messages[5].sender = "bot"
    /\ Cardinality(BotMessages) = 3
    /\ Cardinality(UserMessages) = 2

====
